---------------------------- MODULE Spec2Model ----------------------------
(***************************************************************************)
(* Change tracking and patch reconciliation of currentjs/gen:               *)
(*   utils/commitUtils.ts        diff engine, hunk appliers, commit log     *)
(*   utils/generationRegistry.ts hash registry, writeGeneratedFile          *)
(*   commands/commit.ts          handleCommit                               *)
(*                                                                          *)
(* A text is a JavaScript string, modelled as a sequence of characters.     *)
(* The characters are the letters of Letters and the two control            *)
(* characters CR and LF.  A line is a sequence of characters without LF.    *)
(* Line indices are 0-based as in the source; Slice and Splice translate    *)
(* Array.prototype.slice and Array.prototype.splice.                        *)
(***************************************************************************)
EXTENDS Integers, Sequences, FiniteSets, TLC

VARIABLES
  fnA,        \* harness: first argument text (old text / base text / scenario baseline)
  fnB,        \* harness: second argument text (new text), or the steps of the applier
  fnHunks,    \* harness: hunk sequence under test
  fnOut,      \* harness: result of the applier, [st, text]
  fnPc,       \* harness: position of the harness, stage of the scenario
  disk,       \* content of the generated file on disk, or NoFile
  registry,   \* registry.json: key -> entry
  commits,    \* commits/ directory: the commit files in creation order
  clock,      \* the number of commit commands run so far
  last,       \* record of the last operation (history variable)
  batch       \* a generate run over the files of one module

vars == <<fnA, fnB, fnHunks, fnOut, fnPc, disk, registry, commits, clock, last, batch>>
fnVars == <<fnA, fnB, fnHunks, fnOut, fnPc>>
sysVars == <<disk, registry, commits, clock, last, batch>>

----------------------------------------------------------------------------
(* Bounds *)

MaxLines == 3      \* lines per input text
MaxBlock == 2      \* lines per hand-made hunk block (oldContent, newContent)
MaxCtx == 1        \* lines per hand-made hunk context
MaxFileLines == 2  \* lines of a generated or hand-edited file
MaxCommits == 2    \* commit actions per behaviour
MaxScenarioLines == 3  \* lines of a file in the regeneration scenario
MaxEntities == 2   \* entities of the module of a generate run
MaxListing == 3    \* commit files in a listing of the commits directory
MaxRecords == 1    \* entries of a commit file in a listing
MaxStamp == 2      \* createdAt of a commit file in a listing

----------------------------------------------------------------------------
(* Characters, lines, texts *)

CR == "\r"
LF == "\n"
Letters == {"a", "b"}

Min(x, y) == IF x <= y THEN x ELSE y
Max(x, y) == IF x >= y THEN x ELSE y

\* The line contents the inputs are drawn from: the empty line and one-letter lines.
LineVals == {<<>>} \cup {<<c>> : c \in Letters}

SeqsUpTo(S, lo, hi) == UNION {[1..n -> S] : n \in lo..hi}

\* lines.join(sep) for a sequence of lines and a separator string
RECURSIVE JoinWith(_, _)
JoinWith(lines, sep) ==
  IF Len(lines) = 0 THEN <<>>
  ELSE IF Len(lines) = 1 THEN lines[1]
  ELSE lines[1] \o sep \o JoinWith(Tail(lines), sep)

\* lines.join('\n')
Join(lines) == JoinWith(lines, <<LF>>)

\* Input texts: 1..n lines, separated throughout by LF or throughout by CR LF.
TextsUpTo(n) ==
  {JoinWith(ls, sep) : ls \in SeqsUpTo(LineVals, 1, n), sep \in {<<LF>>, <<CR, LF>>}}

\* Array.prototype.slice(from, to) on 0-based indices, to exclusive, both clamped
Slice(s, from, to) ==
  LET f == Min(Max(from, 0), Len(s))
      t == Min(Max(to, 0), Len(s))
  IN IF f >= t THEN <<>> ELSE SubSeq(s, f + 1, t)

\* Array.prototype.splice(start, deleteCount, ...items): the array afterwards
Splice(s, start, deleteCount, items) ==
  LET st == Min(Max(start, 0), Len(s))
      dc == Min(Max(deleteCount, 0), Len(s) - st)
  IN Slice(s, 0, st) \o items \o Slice(s, st + dc, Len(s))

\* String.prototype.split(/\r?\n/): cut at every LF, dropping one CR before it
RECURSIVE Split(_)
Split(s) ==
  IF \A k \in 1..Len(s) : s[k] # LF THEN <<s>>
  ELSE LET k == CHOOSE x \in 1..Len(s) : s[x] = LF /\ \A y \in 1..(x - 1) : s[y] # LF
           e == IF k > 1 /\ s[k - 1] = CR THEN k - 2 ELSE k - 1
       IN <<SubSeq(s, 1, e)>> \o Split(SubSeq(s, k + 1, Len(s)))

\* computeContentHash: SHA-256, modelled as injective (the digest is the text)
computeContentHash(contents) == contents

----------------------------------------------------------------------------
(* DiffEngine *)

CONTEXT == 3

\* lcsMatrix taking the shorter of the two continuations on a mismatch
lcsMatrixShorter(a, b) ==
  LET n == Len(a)
      m == Len(b)
      dp[i \in 0..n, j \in 0..m] ==
        IF i = n \/ j = m THEN 0
        ELSE IF a[i + 1] = b[j + 1] THEN dp[i + 1, j + 1] + 1
        ELSE Min(dp[i + 1, j], dp[i, j + 1])
  IN dp

lcsMatrix(a, b) ==
  LET n == Len(a)
      m == Len(b)
      dp[i \in 0..n, j \in 0..m] ==
        IF i = n \/ j = m THEN 0
        ELSE IF a[i + 1] = b[j + 1] THEN dp[i + 1, j + 1] + 1
        ELSE Max(dp[i + 1, j], dp[i, j + 1])
  IN dp

\* { oldStart: i, oldLines: 0, newStart: j, newLines: 0, oldContent: [], newContent: [] }
NewPending(i, j) ==
  [oldStart |-> i, oldLines |-> 0, newStart |-> j, newLines |-> 0,
   oldContent |-> <<>>, newContent |-> <<>>]

\* The while loop of computeHunks.  pending is <<>> (null) or <<hunk>>.
RECURSIVE HunkWalk(_, _, _, _, _, _, _)
HunkWalk(a, b, dp, i, j, pending, hunks) ==
  IF ~(i < Len(a) /\ j < Len(b)) THEN [i |-> i, j |-> j, pending |-> pending, hunks |-> hunks]
  ELSE IF a[i + 1] = b[j + 1]
    THEN HunkWalk(a, b, dp, i + 1, j + 1, <<>>, hunks \o pending)
  ELSE LET p == IF pending = <<>> THEN NewPending(i, j) ELSE pending[1] IN
    IF dp[i + 1, j] >= dp[i, j + 1]
    THEN HunkWalk(a, b, dp, i + 1, j,
           <<[p EXCEPT !.oldLines = @ + 1, !.oldContent = Append(@, a[i + 1])]>>, hunks)
    ELSE HunkWalk(a, b, dp, i, j + 1,
           <<[p EXCEPT !.newLines = @ + 1, !.newContent = Append(@, b[j + 1])]>>, hunks)

\* The tail block putting the remainder in front of the hunks collected so far
HunkTailUnshift(a, b, w) ==
  LET i == w.i
      j == w.j
      tail == [oldStart |-> i, oldLines |-> Len(a) - i, newStart |-> j,
               newLines |-> Len(b) - j, oldContent |-> Slice(a, i, Len(a)),
               newContent |-> Slice(b, j, Len(b))]
  IN IF (i < Len(a) \/ j < Len(b)) /\ (tail.oldLines > 0 \/ tail.newLines > 0)
     THEN <<tail>> \o w.hunks \o w.pending
     ELSE w.hunks \o w.pending

\* The "tail remainders" block of computeHunks and the final push of pending
HunkTail(a, b, w) ==
  LET i == w.i
      j == w.j
      tail == [oldStart |-> i, oldLines |-> Len(a) - i, newStart |-> j,
               newLines |-> Len(b) - j, oldContent |-> Slice(a, i, Len(a)),
               newContent |-> Slice(b, j, Len(b))]
  IN IF (i < Len(a) \/ j < Len(b)) /\ (tail.oldLines > 0 \/ tail.newLines > 0)
     THEN IF w.pending # <<>>
          THEN LET p == w.pending[1] IN
               IF p.oldStart + p.oldLines = tail.oldStart /\ p.newStart + p.newLines = tail.newStart
               THEN Append(w.hunks,
                      [p EXCEPT !.oldLines = @ + tail.oldLines,
                                !.newLines = @ + tail.newLines,
                                !.oldContent = @ \o tail.oldContent,
                                !.newContent = @ \o tail.newContent])
               ELSE w.hunks \o <<p, tail>>
          ELSE Append(w.hunks, tail)
     ELSE w.hunks \o w.pending

\* hunks.map(h => ({ ...h, ctxBeforeOld, ctxAfterOld }))
AttachContext(a, h) ==
  [oldStart |-> h.oldStart, oldLines |-> h.oldLines,
   newStart |-> h.newStart, newLines |-> h.newLines,
   oldContent |-> h.oldContent, newContent |-> h.newContent,
   ctxBeforeOld |-> Slice(a, Max(0, h.oldStart - CONTEXT), h.oldStart),
   ctxAfterOld |-> Slice(a, h.oldStart + h.oldLines,
                         Min(Len(a), h.oldStart + h.oldLines + CONTEXT))]

computeHunks(oldStr, newStr) ==
  LET a == Split(oldStr)
      b == Split(newStr)
      dp == lcsMatrix(a, b)
      hs == HunkTail(a, b, HunkWalk(a, b, dp, 0, 0, <<>>, <<>>))
  IN [k \in 1..Len(hs) |-> AttachContext(a, hs[k])]

----------------------------------------------------------------------------
(* HunkApplier *)

\* Outcome of an applier: a text ("text"), null ("null"), or a TypeError ("throw")
Failed == [st |-> "null", text |-> <<>>]
Threw == [st |-> "throw", text |-> <<>>]
Applied(text) == [st |-> "text", text |-> text]

\* The loop of applyHunksToBase giving up when the lines to replace are not oldContent
RECURSIVE ExactLoopChecked(_, _, _, _)
ExactLoopChecked(baseLines, hunks, k, offset) ==
  IF k > Len(hunks) THEN Applied(Join(baseLines))
  ELSE LET h == hunks[k]
           start == h.oldStart + offset
           end == start + h.oldLines
       IN IF start < 0 \/ start > Len(baseLines) \/ end < 0 \/ end > Len(baseLines)
          THEN Failed
          ELSE IF Slice(baseLines, start, end) # h.oldContent THEN Failed
          ELSE ExactLoopChecked(Splice(baseLines, start, h.oldLines, h.newContent), hunks,
                                k + 1, offset + Len(h.newContent) - h.oldLines)

\* The for loop of applyHunksToBase from hunk k on
RECURSIVE ExactLoop(_, _, _, _)
ExactLoop(baseLines, hunks, k, offset) ==
  IF k > Len(hunks) THEN Applied(Join(baseLines))
  ELSE LET h == hunks[k]
           start == h.oldStart + offset
           end == start + h.oldLines
       IN IF start < 0 \/ start > Len(baseLines) \/ end < 0 \/ end > Len(baseLines)
          THEN Failed
          ELSE ExactLoop(Splice(baseLines, start, h.oldLines, h.newContent), hunks, k + 1,
                         offset + Len(h.newContent) - h.oldLines)

applyHunksToBase(base, hunks) == ExactLoop(Split(base), hunks, 1, 0)

\* findSubsequence with the loop bound one short: a needle at the very end is missed
findSubsequenceShort(haystack, needle, fromIndex) ==
  IF Len(needle) = 0 THEN fromIndex
  ELSE LET hits == {i \in fromIndex..(Len(haystack) - Len(needle) - 1) :
                      \A j \in 0..(Len(needle) - 1) : haystack[i + j + 1] = needle[j + 1]}
       IN IF hits = {} THEN -1 ELSE CHOOSE i \in hits : \A k \in hits : i <= k

\* findSubsequence: first index >= fromIndex where needle occurs in haystack, or -1
findSubsequence(haystack, needle, fromIndex) ==
  IF Len(needle) = 0 THEN fromIndex
  ELSE LET hits == {i \in fromIndex..(Len(haystack) - Len(needle)) :
                      \A j \in 0..(Len(needle) - 1) : haystack[i + j + 1] = needle[j + 1]}
       IN IF hits = {} THEN -1 ELSE CHOOSE i \in hits : \A k \in hits : i <= k

\* h.ctxBeforeOld && h.ctxBeforeOld.length > 0 (the context fields are optional)
HasCtxBefore(h) == "ctxBeforeOld" \in DOMAIN h /\ Len(h.ctxBeforeOld) > 0
HasCtxAfter(h) == "ctxAfterOld" \in DOMAIN h /\ Len(h.ctxAfterOld) > 0

\* Locating the block only where the hunk recorded it
LocateBlockAtOldStart(baseLines, h, searchFrom) ==
  IF /\ h.oldStart + h.oldLines <= Len(baseLines)
     /\ Slice(baseLines, h.oldStart, h.oldStart + h.oldLines) = h.oldContent
  THEN h.oldStart
  ELSE -1

\* applyHunksToAnyBase, branch oldLines > 0: the index of the block, -1, or -2 when
\* h.ctxBeforeOld!.length is evaluated on an absent ctxBeforeOld (TypeError)
LocateBlock(baseLines, h, searchFrom) ==
  LET idx1 == findSubsequence(baseLines, h.oldContent, searchFrom)
      idx2 ==
        IF idx1 = -1 /\ HasCtxBefore(h)
        THEN LET beforeIdx == findSubsequence(baseLines, h.ctxBeforeOld,
                                Max(0, searchFrom - Len(h.ctxBeforeOld)))
             IN IF beforeIdx # -1
                THEN findSubsequence(baseLines, h.oldContent, beforeIdx + Len(h.ctxBeforeOld))
                ELSE idx1
        ELSE idx1
  IN IF idx2 = -1 /\ HasCtxAfter(h)
     THEN LET afterIdx == findSubsequence(baseLines, h.ctxAfterOld, searchFrom)
          IN IF afterIdx # -1
             THEN IF "ctxBeforeOld" \notin DOMAIN h THEN -2
                  ELSE LET windowStart == Max(0, afterIdx - h.oldLines - Len(h.ctxBeforeOld))
                           w == findSubsequence(Slice(baseLines, windowStart, afterIdx),
                                                h.oldContent, 0)
                       IN IF w # -1 THEN w + windowStart ELSE w
             ELSE idx2
     ELSE idx2

\* applyHunksToAnyBase, branch of an insertion-only hunk: the insertion index
LocateInsert(baseLines, h, searchFrom) ==
  LET anchored ==
        IF HasCtxBefore(h)
        THEN LET beforeIdx == findSubsequence(baseLines, h.ctxBeforeOld,
                                Max(0, searchFrom - Len(h.ctxBeforeOld)))
             IN IF beforeIdx # -1 THEN beforeIdx + Len(h.ctxBeforeOld) ELSE h.newStart
        ELSE IF HasCtxAfter(h)
        THEN LET afterIdx == findSubsequence(baseLines, h.ctxAfterOld, searchFrom)
             IN IF afterIdx # -1 THEN afterIdx ELSE h.newStart
        ELSE h.newStart
  IN IF anchored < 0 \/ anchored > Len(baseLines) THEN Len(baseLines) ELSE anchored

\* The for loop of applyHunksToAnyBase from hunk k on
RECURSIVE FuzzyLoop(_, _, _, _)
FuzzyLoop(baseLines, hunks, k, searchFrom) ==
  IF k > Len(hunks) THEN Applied(Join(baseLines))
  ELSE LET h == hunks[k] IN
    IF h.oldLines > 0 /\ Len(h.oldContent) > 0
    THEN LET idx == LocateBlock(baseLines, h, searchFrom) IN
         IF idx = -2 THEN Threw
         ELSE IF idx = -1 THEN Failed
         ELSE FuzzyLoop(Splice(baseLines, idx, h.oldLines, h.newContent), hunks, k + 1,
                        idx + Len(h.newContent))
    ELSE LET insertAt == LocateInsert(baseLines, h, searchFrom) IN
         FuzzyLoop(Splice(baseLines, insertAt, 0, h.newContent), hunks, k + 1,
                   insertAt + Len(h.newContent))

applyHunksToAnyBase(base, hunks) == FuzzyLoop(Split(base), hunks, 1, 0)

\* The same loop observed: for each hunk reached, the cursor searchFrom it found
\* and the index idx or insertAt it settled on (-1 not located, -2 TypeError)
RECURSIVE FuzzySteps(_, _, _, _)
FuzzySteps(baseLines, hunks, k, searchFrom) ==
  IF k > Len(hunks) THEN <<>>
  ELSE LET h == hunks[k] IN
    IF h.oldLines > 0 /\ Len(h.oldContent) > 0
    THEN LET idx == LocateBlock(baseLines, h, searchFrom) IN
         IF idx < 0 THEN <<[from |-> searchFrom, at |-> idx]>>
         ELSE <<[from |-> searchFrom, at |-> idx]>>
              \o FuzzySteps(Splice(baseLines, idx, h.oldLines, h.newContent), hunks, k + 1,
                            idx + Len(h.newContent))
    ELSE LET insertAt == LocateInsert(baseLines, h, searchFrom) IN
         <<[from |-> searchFrom, at |-> insertAt]>>
         \o FuzzySteps(Splice(baseLines, insertAt, 0, h.newContent), hunks, k + 1,
                       insertAt + Len(h.newContent))

----------------------------------------------------------------------------
(* HashRegistry: registry.json is an object from key to entry.  The keys of   *)
(* the one generated file are "rel" (project-root-relative) and "abs"         *)
(* (legacy absolute path).  An entry is an object with optional fields; the   *)
(* timestamps updatedAt and diffUpdatedAt are never read and are left out.    *)

NoFile == <<"NOFILE">>      \* fs.existsSync(abs) is false
NoHash == <<"undefined">>   \* getStoredHash returns undefined
EmptyRegistry == [k \in {} |-> <<>>]
EmptyEntry == [k \in {} |-> <<>>]

\* { ...prev, ...fields }
Spread(prev, fields) ==
  [k \in DOMAIN prev \cup DOMAIN fields |-> IF k \in DOMAIN fields THEN fields[k] ELSE prev[k]]

\* registry[key]?.hash
HashAt(reg, key) ==
  IF key \in DOMAIN reg /\ "hash" \in DOMAIN reg[key] THEN reg[key].hash ELSE NoHash

\* getStoredHash: registry[rel]?.hash ?? registry[abs]?.hash
getStoredHash(reg) ==
  IF HashAt(reg, "rel") # NoHash THEN HashAt(reg, "rel") ELSE HashAt(reg, "abs")

\* registry[rel] = value; delete registry[abs]
PutRel(reg, value) ==
  [k \in (DOMAIN reg \cup {"rel"}) \ {"abs"} |-> IF k = "rel" THEN value ELSE reg[k]]

\* updateStoredHash keeping the entry under the absolute key
updateStoredHashAbs(reg, hash) ==
  LET prev == IF "abs" \in DOMAIN reg THEN reg["abs"] ELSE EmptyEntry
  IN [k \in DOMAIN reg \cup {"abs"} |-> IF k = "abs" THEN Spread(prev, [hash |-> hash]) ELSE reg[k]]

\* updateStoredHash storing a fresh entry instead of { ...prev, hash }
updateStoredHashFresh(reg, hash) == PutRel(reg, [hash |-> hash])

\* updateStoredHash: the registry afterwards
updateStoredHash(reg, hash) ==
  LET prev == IF "rel" \in DOMAIN reg THEN reg["rel"] ELSE EmptyEntry
  IN PutRel(reg, Spread(prev, [hash |-> hash]))

\* updateStoredHunks: the registry afterwards
updateStoredHunks(reg, hunks, baseHash, resultHash) ==
  LET prev == IF "rel" \in DOMAIN reg THEN reg["rel"] ELSE EmptyEntry
  IN PutRel(reg, Spread(prev, [diffFormat |-> "hunks-v1", diffHunks |-> hunks,
                               diffBaseHash |-> baseHash, diffResultHash |-> resultHash]))

----------------------------------------------------------------------------
(* CommitStore *)

\* Insert r into the sequence rs sorted by createdAt, after its equals (stable)
RECURSIVE InsertByCreatedAt(_, _)
InsertByCreatedAt(rs, r) ==
  IF rs = <<>> THEN <<r>>
  ELSE IF rs[1].createdAt <= r.createdAt THEN <<rs[1]>> \o InsertByCreatedAt(Tail(rs), r)
  ELSE <<r>> \o rs

\* results.sort((a, b) => a.createdAt - b.createdAt)
RECURSIVE SortByCreatedAt(_)
SortByCreatedAt(rs) ==
  IF rs = <<>> THEN <<>>
  ELSE InsertByCreatedAt(SortByCreatedAt(SubSeq(rs, 1, Len(rs) - 1)), rs[Len(rs)])

\* JSON.parse of the commit file succeeds and data.files can be iterated; a file
\* that fails either way throws inside the try block
Parses(f) == "files" \in DOMAIN f

\* data.createdAt ? Date.parse(data.createdAt) : parseCommitTimestamp(f), then
\* ts || 0; parseCommitTimestamp returns 0
Timestamp(f) == IF "createdAt" \in DOMAIN f THEN f.createdAt ELSE 0

\* The try block for one commit file: its entries, none when it throws
CommitEntries(f) ==
  IF ~Parses(f) THEN <<>>
  ELSE [k \in 1..Len(f.files) |->
          [createdAt |-> Timestamp(f), file |-> f.files[k].file, record |-> f.files[k]]]

\* The scan giving up at the first commit file that throws
RECURSIVE FlattenCommitsAborting(_)
FlattenCommitsAborting(files) ==
  IF files = <<>> \/ ~Parses(files[1]) THEN <<>>
  ELSE CommitEntries(files[1]) \o FlattenCommitsAborting(Tail(files))

\* The forEach of loadAllCommitRecords: every file's entries, flattened in listing order
RECURSIVE FlattenCommits(_)
FlattenCommits(files) ==
  IF files = <<>> THEN <<>>
  ELSE CommitEntries(files[1]) \o FlattenCommits(Tail(files))

\* loadAllCommitRecords returning the entries in listing order
loadAllCommitRecordsUnsorted(files) == FlattenCommits(files)

loadAllCommitRecords(files) == SortByCreatedAt(FlattenCommits(files))

----------------------------------------------------------------------------
(* ReconciliationWriter *)

NotApplied(content) == [applied |-> FALSE, threw |-> FALSE, content |-> content, via |-> "none"]

\* An applier's outcome as the return value of tryApplyCommitsToGenerated
AppliedVia(out, via) == [applied |-> TRUE, threw |-> FALSE, content |-> out.text, via |-> via]

\* The registry-snapshot step of tryApplyCommitsToGenerated: the applier's outcome,
\* Failed when the entry has no usable snapshot
SnapshotApply(reg, generatedContent) ==
  LET baseHash == computeContentHash(generatedContent) IN
  IF /\ "rel" \in DOMAIN reg
     /\ "diffFormat" \in DOMAIN reg["rel"]
     /\ reg["rel"].diffFormat = "hunks-v1"
     /\ "diffHunks" \in DOMAIN reg["rel"]
  THEN IF reg["rel"].diffBaseHash = baseHash
       THEN applyHunksToBase(generatedContent, reg["rel"].diffHunks)
       ELSE applyHunksToAnyBase(generatedContent, reg["rel"].diffHunks)
  ELSE Failed

IsModifiedEntry(r) == r.file = "rel" /\ r.record.status = "modified"

\* The commit-file fallback of tryApplyCommitsToGenerated.  The legacy line-diff
\* candidates need a diff field, which no record written by handleCommit has.
CommitLogApply(commitFiles, generatedContent) ==
  LET baseHash == computeContentHash(generatedContent)
      all == SelectSeq(loadAllCommitRecords(commitFiles), IsModifiedEntry)
      IsCandidate(r) == /\ "format" \in DOMAIN r.record
                        /\ r.record.format = "hunks-v1"
                        /\ r.record.baseHash = baseHash
                        /\ "hunks" \in DOMAIN r.record
      hunksCandidates == SelectSeq(all, IsCandidate)
  IN IF Len(all) = 0 \/ Len(hunksCandidates) = 0 THEN Failed
     ELSE applyHunksToBase(generatedContent, hunksCandidates[Len(hunksCandidates)].record.hunks)

tryApplyCommitsToGenerated(reg, commitFiles, generatedContent) ==
  LET viaRegistry == SnapshotApply(reg, generatedContent) IN
  IF viaRegistry.st = "throw" THEN [NotApplied(generatedContent) EXCEPT !.threw = TRUE]
  ELSE IF viaRegistry.st = "text" THEN AppliedVia(viaRegistry, "registry")
  ELSE LET viaCommits == CommitLogApply(commitFiles, generatedContent) IN
       IF viaCommits.st = "text" THEN AppliedVia(viaCommits, "commits")
       ELSE NotApplied(generatedContent)

\* A comparison that takes every existing file for user-modified
isUserModifiedAlways(storedHash, currentHash) == TRUE

\* const isUserModified = !storedHash || storedHash !== currentHash
isUserModified(storedHash, currentHash) == storedHash = NoHash \/ storedHash # currentHash

\* The outcome of one writeGeneratedFile call: the return value, the path taken,
\* whether promptYesNo asked, the files fs.writeFileSync wrote, and the file and the
\* registry afterwards
Outcome(result, branch, prompted, fsWrites, d, reg) ==
  [result |-> result, branch |-> branch, prompted |-> prompted, fsWrites |-> fsWrites,
   disk |-> d, registry |-> reg]

\* fs.writeFileSync(abs, text); updateStoredHash(abs, newHash); return 'written'
WriteAndRegister(branch, prompted, text, reg, newHash) ==
  Outcome("written", branch, prompted, {"file", "registry"}, text,
          updateStoredHash(reg, newHash))

\* A skip that registers the hash of the content it left on disk
UntouchedRegisters(result, branch, prompted, d, reg) ==
  Outcome(result, branch, prompted, {"registry"}, d,
          updateStoredHash(reg, computeContentHash(d)))

\* return 'unchanged' / return 'skipped': nothing is written
Untouched(result, branch, prompted, d, reg) == Outcome(result, branch, prompted, {}, d, reg)

\* WriteExisting with the merge path taken whatever force is
WriteExistingMergeFirst(d, reg, commitFiles, contents, force, skipOnConflict, answer) ==
  LET newHash == computeContentHash(contents)
      modified == isUserModified(getStoredHash(reg), computeContentHash(d))
      applied == tryApplyCommitsToGenerated(reg, commitFiles, contents)
  IN
  IF modified /\ applied.threw THEN Untouched("threw", "threw", FALSE, d, reg)
  ELSE IF modified /\ applied.applied
  THEN WriteAndRegister(IF applied.via = "registry" THEN "merged-registry"
                        ELSE "merged-commits", FALSE, applied.content, reg, newHash)
  ELSE IF modified /\ ~force
  THEN IF skipOnConflict THEN Untouched("skipped", "skipped", FALSE, d, reg)
       ELSE IF ~answer THEN Untouched("skipped", "declined", TRUE, d, reg)
       ELSE WriteAndRegister("confirmed", TRUE, contents, reg, newHash)
  ELSE WriteAndRegister(IF modified THEN "forced" ELSE "clean", FALSE, contents, reg, newHash)

\* writeGeneratedFile from "const isUserModified" on: the file exists and differs
\* from contents.  answer is what the operator types when promptYesNo asks.
WriteExisting(d, reg, commitFiles, contents, force, skipOnConflict, answer) ==
  LET newHash == computeContentHash(contents)
      modified == isUserModified(getStoredHash(reg), computeContentHash(d))
  IN
  IF modified /\ ~force
  THEN LET applied == tryApplyCommitsToGenerated(reg, commitFiles, contents) IN
       IF applied.threw THEN Untouched("threw", "threw", FALSE, d, reg)
       ELSE IF applied.applied
         THEN WriteAndRegister(IF applied.via = "registry" THEN "merged-registry"
                               ELSE "merged-commits", FALSE, applied.content, reg, newHash)
       ELSE IF skipOnConflict THEN Untouched("skipped", "skipped", FALSE, d, reg)
       ELSE IF ~answer THEN Untouched("skipped", "declined", TRUE, d, reg)
       ELSE WriteAndRegister("confirmed", TRUE, contents, reg, newHash)
  ELSE WriteAndRegister(IF modified THEN "forced" ELSE "clean", FALSE, contents, reg, newHash)

\* writeGeneratedFile with force skipping the comparison of the hashes
writeGeneratedFileForceRewrites(d, reg, commitFiles, contents, force, skipOnConflict, answer) ==
  IF d = NoFile
  THEN WriteAndRegister("created", FALSE, contents, reg, computeContentHash(contents))
  ELSE IF ~force /\ computeContentHash(d) = computeContentHash(contents)
  THEN Untouched("unchanged", "unchanged", FALSE, d, reg)
  ELSE WriteExisting(d, reg, commitFiles, contents, force, skipOnConflict, answer)

\* writeGeneratedFile(filePath, contents, { force, skipOnConflict })
writeGeneratedFile(d, reg, commitFiles, contents, force, skipOnConflict, answer) ==
  IF d = NoFile
  THEN WriteAndRegister("created", FALSE, contents, reg, computeContentHash(contents))
  ELSE IF computeContentHash(d) = computeContentHash(contents)
  THEN Untouched("unchanged", "unchanged", FALSE, d, reg)
  ELSE WriteExisting(d, reg, commitFiles, contents, force, skipOnConflict, answer)

\* handleCommit.consider for the generated file: <<updated registry, diffs>>
consider(d, reg, generated, selected) ==
  LET currentHash == computeContentHash(d)
      storedHash == getStoredHash(reg)
      newHash == computeContentHash(generated)
  IN
  IF d = NoFile THEN <<reg, <<>>>>
  ELSE IF storedHash # NoHash /\ storedHash = currentHash THEN <<reg, <<>>>>
  ELSE IF newHash = currentHash THEN <<reg, <<>>>>
  ELSE IF ~selected THEN <<reg, <<>>>>
  ELSE LET hunks == computeHunks(generated, d) IN
       <<updateStoredHunks(reg, hunks, newHash, currentHash),
         <<[file |-> "rel", status |-> "modified", oldHash |-> currentHash,
            newHash |-> newHash, format |-> "hunks-v1", baseHash |-> newHash,
            resultHash |-> currentHash, hunks |-> hunks]>>>>

\* handleDiff.consider: the text the on-disk content is compared with, the
\* generated code with the registry snapshot applied when its base is that code
ExpectedAfterCommits(reg, generated) ==
  IF /\ "rel" \in DOMAIN reg
     /\ "diffFormat" \in DOMAIN reg["rel"]
     /\ reg["rel"].diffFormat = "hunks-v1"
     /\ reg["rel"].diffBaseHash = computeContentHash(generated)
     /\ "diffHunks" \in DOMAIN reg["rel"]
     /\ applyHunksToBase(generated, reg["rel"].diffHunks).st = "text"
  THEN applyHunksToBase(generated, reg["rel"].diffHunks).text
  ELSE generated

\* handleDiff.consider for the generated file: the status it reports
diffConsider(d, reg, generated) ==
  IF d = NoFile THEN "missing"
  ELSE LET currentHash == computeContentHash(d)
           stored == getStoredHash(reg)
           baseForDiff == ExpectedAfterCommits(reg, generated)
       IN IF /\ stored # NoHash
             /\ stored = currentHash
             /\ computeContentHash(baseForDiff) = currentHash
          THEN "clean"
          ELSE IF computeHunks(baseForDiff, d) = <<>> THEN "clean" ELSE "modified"

----------------------------------------------------------------------------
(* The system: one generated file, its registry and its commit log.  The     *)
(* commands run one after the other, each commit in a later millisecond.     *)

\* Line contents of generated and hand-edited files
FileLines == {<<c>> : c \in Letters}

\* Generator outputs for successive specifications: a file, the file with a line
\* appended, the file with a line prepended
GenTexts == {Join(<<<<"a">>>>), Join(<<<<"a">>, <<"b">>>>), Join(<<<<"b">>, <<"a">>>>)}

\* What an editor may save: the same line sequences, LF- or CR LF-separated
EditTexts ==
  {JoinWith(ls, sep) : ls \in SeqsUpTo(FileLines, 1, MaxFileLines), sep \in {<<LF>>, <<CR, LF>>}}

NoOp == [op |-> "init", contents |-> <<>>, force |-> FALSE, skipOnConflict |-> FALSE,
         result |-> "none", branch |-> "none", prompted |-> FALSE, fsWrites |-> {}]

NoHunks == <<>>

\* No generate run is under way
NoBatch == [pc |-> "idle"]

\* A fresh project: nothing generated, no registry.json, no commits directory
InitSys ==
  /\ disk = NoFile
  /\ registry = EmptyRegistry
  /\ commits = <<>>
  /\ clock = 0
  /\ last = NoOp
  /\ batch = NoBatch

\* The harness variables are idle while the system runs
InitIdle ==
  /\ fnA = <<>>
  /\ fnB = <<>>
  /\ fnHunks = NoHunks
  /\ fnOut = Failed
  /\ fnPc = "idle"

Init == InitIdle /\ InitSys

\* generate: one writeGeneratedFile call for the file
Write(contents, force, skipOnConflict, answer) ==
  \E out \in {writeGeneratedFile(disk, registry, commits, contents, force, skipOnConflict,
                                   answer)} :
    /\ disk' = out.disk
    /\ registry' = out.registry
    /\ last' = [op |-> "write", contents |-> contents, force |-> force,
                skipOnConflict |-> skipOnConflict, result |-> out.result,
                branch |-> out.branch, prompted |-> out.prompted,
                fsWrites |-> out.fsWrites]
    /\ UNCHANGED <<commits, clock, batch>>

\* The developer saves the generated file with other content
UserEdit(text) ==
  /\ disk # NoFile
  /\ text # disk
  /\ disk' = text
  /\ last' = [NoOp EXCEPT !.op = "edit"]
  /\ UNCHANGED <<registry, commits, clock, batch>>

\* The generated file is deleted (a fresh checkout has no generated sources)
UserDelete ==
  /\ disk # NoFile
  /\ disk' = NoFile
  /\ last' = [NoOp EXCEPT !.op = "delete"]
  /\ UNCHANGED <<registry, commits, clock, batch>>

\* fs.writeFileSync(commitFile, ...): the file commit-<timestamp>.json is created,
\* or replaced when a commit file of that timestamp is there already.  The name
\* and createdAt are both taken from the wall clock and are modelled as one reading.
PutCommitFile(files, record) ==
  IF \E i \in 1..Len(files) : files[i].createdAt = record.createdAt
  THEN [i \in 1..Len(files) |->
          IF files[i].createdAt = record.createdAt THEN record ELSE files[i]]
  ELSE Append(files, record)

\* The latest timestamp in the commits directory, 0 when it is empty
LatestStamp(files) ==
  IF files = <<>> THEN 0
  ELSE CHOOSE t \in {files[i].createdAt : i \in 1..Len(files)} :
         \A i \in 1..Len(files) : files[i].createdAt <= t

\* commit [files...] run at the millisecond now: consider the file, then write
\* the commit file.  At most MaxCommits commit commands are run.
Commit(now, generated, selected) ==
  /\ clock < MaxCommits
  /\ \E c \in {consider(disk, registry, generated, selected)} :
       /\ registry' = c[1]
       /\ commits' = PutCommitFile(commits, [createdAt |-> now, files |-> c[2]])
  /\ clock' = clock + 1
  /\ last' = [NoOp EXCEPT !.op = "commit", !.contents = generated]
  /\ UNCHANGED <<disk, batch>>

\* registry.json is removed or left unparsable; loadRegistry then returns {}
DiscardRegistry ==
  /\ registry # EmptyRegistry
  /\ registry' = EmptyRegistry
  /\ last' = [NoOp EXCEPT !.op = "discard"]
  /\ UNCHANGED <<disk, commits, clock, batch>>

Next ==
  \/ \E contents \in GenTexts, force \in BOOLEAN, skipOnConflict \in BOOLEAN, answer \in BOOLEAN :
       Write(contents, force, skipOnConflict, answer) /\ UNCHANGED fnVars
  \/ \E text \in EditTexts : UserEdit(text) /\ UNCHANGED fnVars
  \/ UserDelete /\ UNCHANGED fnVars
  \/ \E generated \in GenTexts, selected \in BOOLEAN :
       Commit(LatestStamp(commits) + 1, generated, selected) /\ UNCHANGED fnVars
  \/ DiscardRegistry /\ UNCHANGED fnVars

Spec == Init /\ [][Next]_vars

----------------------------------------------------------------------------
(* The diff and commit commands at work between generations: the system with  *)
(* the diff command and without --force and prompts (generate --skip)         *)

\* diff: handleDiff.consider for the file; the status goes to the report
Diff(generated) ==
  /\ last' = [NoOp EXCEPT !.op = "diff", !.contents = generated,
                          !.result = diffConsider(disk, registry, generated)]
  /\ UNCHANGED <<disk, registry, commits, clock, batch>>

NextInspect ==
  \/ \E contents \in GenTexts : Write(contents, FALSE, TRUE, FALSE) /\ UNCHANGED fnVars
  \/ \E text \in GenTexts \cup {Join(<<<<"b">>>>)} : UserEdit(text) /\ UNCHANGED fnVars
  \/ \E generated \in GenTexts :
       Commit(LatestStamp(commits) + 1, generated, TRUE) /\ UNCHANGED fnVars
  \/ \E generated \in GenTexts : Diff(generated) /\ UNCHANGED fnVars

SpecInspect == Init /\ [][NextInspect]_vars

----------------------------------------------------------------------------
(* The commit log under commands whose timing is not controlled: a commit may *)
(* run in the millisecond of the commit before it (two commit commands        *)
(* started together, or the wall clock set back between them).  The generated *)
(* code is "a" or "a", "b".                                                   *)

LogTexts == {t \in GenTexts : Head(t) = "a"}

NextLog ==
  \/ \E contents \in LogTexts : Write(contents, FALSE, TRUE, FALSE) /\ UNCHANGED fnVars
  \/ \E text \in LogTexts \cup {Join(<<<<"b">>>>)} : UserEdit(text) /\ UNCHANGED fnVars
  \/ \E generated \in LogTexts, now \in 1..(LatestStamp(commits) + 1) :
       Commit(now, generated, TRUE) /\ UNCHANGED fnVars
  \/ \E generated \in LogTexts : Diff(generated) /\ UNCHANGED fnVars

SpecLog == Init /\ [][NextLog]_vars

----------------------------------------------------------------------------
(* A generate run over one module: handleGenerateAll awaits the generators one *)
(* after the other.  DomainModelGenerator.generateAndSaveFiles starts          *)
(* writeGeneratedFile for every entity inside Promise.all; the validation      *)
(* generator awaits each writeGeneratedFile in a for loop.  A call runs        *)
(* synchronously until "await promptYesNo" and is then pending until the       *)
(* operator answers.  There is no commits directory in this run.  The record   *)
(* of a file holds its content, the part of registry.json under its keys, the  *)
(* state and return value of its call, and the registry.json the call read     *)
(* when it began.                                                              *)

Entities == 1..MaxEntities
Generators == {"domain", "validation"}
BatchFiles == Generators \X Entities

\* What every generator produces for the changed specification
BatchCandidate == Join(<<<<"a">>, <<"b">>>>)

\* No call has read registry.json
NotSeen == [g \in BatchFiles |-> EmptyRegistry]

\* A file before the run: missing, as generated, or edited by hand
BatchFileStates ==
  {[disk |-> NoFile, registry |-> EmptyRegistry, call |-> "none", result |-> "none",
    seen |-> NotSeen],
   [disk |-> Join(<<<<"a">>>>), registry |-> updateStoredHash(EmptyRegistry, Join(<<<<"a">>>>)),
    call |-> "none", result |-> "none", seen |-> NotSeen],
   [disk |-> Join(<<<<"b">>>>), registry |-> updateStoredHash(EmptyRegistry, Join(<<<<"a">>>>)),
    call |-> "none", result |-> "none", seen |-> NotSeen]}

\* registry.json: for every path the part under its keys
BatchRegistry(files) == [g \in BatchFiles |-> files[g].registry]

\* An update persisting the registry.json its call read before the prompt
loadRegistryOfCallStart(files, seen) == seen

\* loadRegistry() inside updateStoredHash: registry.json as it is at that moment
loadRegistry(files, seen) == BatchRegistry(files)

\* The call for file begins: getStoredHash reads registry.json
Begin(files, file) == [files EXCEPT ![file].seen = BatchRegistry(files)]

\* The call for file returns with the file record rec.  A call that returns
\* 'written' ran updateStoredHash: load, set the entry of its path, saveRegistry.
Settle(files, file, rec) ==
  IF rec.result = "written"
  THEN LET loaded == loadRegistry(files, files[file].seen)
       IN [g \in BatchFiles |->
             IF g = file THEN rec ELSE [files[g] EXCEPT !.registry = loaded[g]]]
  ELSE [files EXCEPT ![file] = rec]

InitBatch ==
  /\ InitIdle
  /\ disk = NoFile
  /\ registry = EmptyRegistry
  /\ commits = <<>>
  /\ clock = 0
  /\ last = NoOp
  /\ \E force \in BOOLEAN, skipOnConflict \in BOOLEAN, files \in [BatchFiles -> BatchFileStates] :
       batch = [pc |-> "domain", next |-> 1, force |-> force,
                skipOnConflict |-> skipOnConflict, files |-> files]

\* writeGeneratedFile up to "await promptYesNo"; the operator's answer is not
\* known yet and the outcome does not depend on it unless the call prompts
SyncOutcome(f) ==
  writeGeneratedFile(f.disk, f.registry, <<>>, BatchCandidate, batch.force,
                     batch.skipOnConflict, FALSE)

\* The file record when the call has run up to its await or to its return
StartWrite(f, out) ==
  IF out.prompted THEN [f EXCEPT !.call = "prompting"]
  ELSE [f EXCEPT !.disk = out.disk, !.registry = out.registry, !.call = "done",
                 !.result = out.result]

\* The files after the call for file ran up to its await or to its return
Started(files, file, out) ==
  IF out.prompted THEN [files EXCEPT ![file] = StartWrite(files[file], out)]
  ELSE Settle(files, file, StartWrite(files[file], out))

\* writeGeneratedFile after "await promptYesNo" resolved with overwrite = answer
ResumeWrite(f, answer) ==
  LET out == IF ~answer THEN Untouched("skipped", "declined", TRUE, f.disk, f.registry)
             ELSE WriteAndRegister("confirmed", TRUE, BatchCandidate, f.registry,
                                   computeContentHash(BatchCandidate))
  IN [f EXCEPT !.disk = out.disk, !.registry = out.registry, !.call = "done",
                !.result = out.result]

\* DomainModelGenerator: the map callback of Promise.all calls writeGeneratedFile
\* for the next entity without awaiting the calls before it
DomainWriteStart ==
  /\ batch.pc = "domain"
  /\ batch.next <= MaxEntities
  /\ \E out \in {SyncOutcome(batch.files[<<"domain", batch.next>>])},
        began \in {Begin(batch.files, <<"domain", batch.next>>)} :
       batch' = [batch EXCEPT !.files = Started(began, <<"domain", batch.next>>, out),
                              !.next = batch.next + 1]
  /\ UNCHANGED <<fnVars, disk, registry, commits, clock, last>>

\* await Promise.all(...) of DomainModelGenerator returns; the validation generator runs
DomainAllSettled ==
  /\ batch.pc = "domain"
  /\ batch.next > MaxEntities
  /\ \A e \in Entities : batch.files[<<"domain", e>>].call = "done"
  /\ batch' = [batch EXCEPT !.pc = "validation", !.next = 1]
  /\ UNCHANGED <<fnVars, disk, registry, commits, clock, last>>

\* ValidationGenerator: for (...) { await writeGeneratedFile(...) }
ValidationWriteStart ==
  /\ batch.pc = "validation"
  /\ batch.next <= MaxEntities
  /\ \A e \in Entities : batch.files[<<"validation", e>>].call # "prompting"
  /\ \E out \in {SyncOutcome(batch.files[<<"validation", batch.next>>])},
        began \in {Begin(batch.files, <<"validation", batch.next>>)} :
       batch' = [batch EXCEPT !.files = Started(began, <<"validation", batch.next>>, out),
                              !.next = batch.next + 1]
  /\ UNCHANGED <<fnVars, disk, registry, commits, clock, last>>

ValidationDone ==
  /\ batch.pc = "validation"
  /\ batch.next > MaxEntities
  /\ \A e \in Entities : batch.files[<<"validation", e>>].call = "done"
  /\ batch' = [batch EXCEPT !.pc = "finished"]
  /\ UNCHANGED <<fnVars, disk, registry, commits, clock, last>>

\* The operator answers a pending prompt
PromptAnswered(file, answer) ==
  /\ batch.pc \in {"domain", "validation"}
  /\ batch.files[file].call = "prompting"
  /\ batch' = [batch EXCEPT !.files = Settle(batch.files, file,
                                             ResumeWrite(batch.files[file], answer))]
  /\ UNCHANGED <<fnVars, disk, registry, commits, clock, last>>

NextBatch ==
  \/ DomainWriteStart
  \/ DomainAllSettled
  \/ ValidationWriteStart
  \/ ValidationDone
  \/ \E file \in BatchFiles, answer \in BOOLEAN : PromptAnswered(file, answer)

SpecBatch == InitBatch /\ [][NextBatch]_vars

----------------------------------------------------------------------------
(* The regeneration scenario: generate a baseline, edit the file, commit against *)
(* the unchanged specification, change the specification and generate again,     *)
(* then run the same generate command once more.                                 *)
(* fnPc is the stage reached and fnA the baseline that was generated.            *)

\* Generator outputs of the scenario: LF-separated files
ScenarioGen == {Join(ls) : ls \in SeqsUpTo(FileLines, 1, MaxScenarioLines)}

\* Editor saves and later generator outputs of the scenario: LF or CR LF
ScenarioTexts ==
  {JoinWith(ls, sep) : ls \in SeqsUpTo(FileLines, 1, MaxScenarioLines),
                       sep \in {<<LF>>, <<CR, LF>>}}

InitScenario ==
  /\ fnA = <<>>
  /\ fnB = <<>>
  /\ fnHunks = NoHunks
  /\ fnOut = Failed
  /\ fnPc = "fresh"
  /\ InitSys

ScenarioGenerate ==
  /\ fnPc = "fresh"
  /\ \E g1 \in ScenarioGen : Write(g1, FALSE, FALSE, FALSE) /\ fnA' = g1
  /\ fnPc' = "baseline"
  /\ UNCHANGED <<fnB, fnHunks, fnOut>>

ScenarioEdit ==
  /\ fnPc = "baseline"
  /\ \E text \in ScenarioTexts : UserEdit(text)
  /\ fnPc' = "edited"
  /\ UNCHANGED <<fnA, fnB, fnHunks, fnOut>>

ScenarioCommit ==
  /\ fnPc = "edited"
  /\ Commit(LatestStamp(commits) + 1, fnA, TRUE)
  /\ fnPc' = "committed"
  /\ UNCHANGED <<fnA, fnB, fnHunks, fnOut>>

ScenarioRegenerate ==
  /\ fnPc = "committed"
  /\ \E g2 \in ScenarioTexts, skipOnConflict \in BOOLEAN, answer \in BOOLEAN :
       Write(g2, FALSE, skipOnConflict, answer)
  /\ fnPc' = "regenerated"
  /\ UNCHANGED <<fnA, fnB, fnHunks, fnOut>>

\* The generate command is run again at once: same candidate, same options
ScenarioRepeat ==
  /\ fnPc = "regenerated"
  /\ \E answer \in BOOLEAN : Write(last.contents, last.force, last.skipOnConflict, answer)
  /\ fnPc' = "repeated"
  /\ UNCHANGED <<fnA, fnB, fnHunks, fnOut>>

NextScenario ==
  ScenarioGenerate \/ ScenarioEdit \/ ScenarioCommit \/ ScenarioRegenerate \/ ScenarioRepeat

SpecScenario == InitScenario /\ [][NextScenario]_vars

----------------------------------------------------------------------------
(* Harness for the diff/apply pair: compute the hunks of (fnA, fnB), apply them to fnA *)

InitDiff ==
  /\ fnA \in TextsUpTo(MaxLines)
  /\ fnB \in TextsUpTo(MaxLines)
  /\ fnHunks = NoHunks
  /\ fnOut = Failed
  /\ fnPc = "start"
  /\ InitSys

DiffCompute ==
  /\ fnPc = "start"
  /\ fnHunks' = computeHunks(fnA, fnB)
  /\ fnPc' = "hunks"
  /\ UNCHANGED <<fnA, fnB, fnOut, sysVars>>

DiffApply ==
  /\ fnPc = "hunks"
  /\ fnOut' = applyHunksToBase(fnA, fnHunks)
  /\ fnPc' = "done"
  /\ UNCHANGED <<fnA, fnB, fnHunks, sysVars>>

NextDiff == DiffCompute \/ DiffApply

SpecDiff == InitDiff /\ [][NextDiff]_vars

----------------------------------------------------------------------------
(* Harness for the commit log reader: the commits directory holds a listing of *)
(* commit files, fnOut receives the result of loadAllCommitRecords             *)

\* Entries of a commit file: the generated file or another file, told apart by newHash
LogRecords ==
  {[file |-> f, status |-> "modified", newHash |-> <<h>>] : f \in {"rel", "other"},
                                                         h \in Letters}

\* A commit file: unparsable, without createdAt, or with createdAt in 1..MaxStamp
CommitFiles ==
  LET lists == SeqsUpTo(LogRecords, 0, MaxRecords)
  IN {[broken |-> TRUE]}
     \cup {[files |-> l] : l \in lists}
     \cup {[createdAt |-> t, files |-> l] : t \in 1..MaxStamp, l \in lists}

InitLoad ==
  /\ InitIdle
  /\ disk = NoFile
  /\ registry = EmptyRegistry
  /\ commits \in SeqsUpTo(CommitFiles, 1, MaxListing)
  /\ clock = 0
  /\ last = NoOp
  /\ batch = NoBatch

LoadAll ==
  /\ fnPc = "idle"
  /\ fnOut' = loadAllCommitRecords(commits)
  /\ fnPc' = "done"
  /\ UNCHANGED <<fnA, fnB, fnHunks, sysVars>>

NextLoad == LoadAll

SpecLoad == InitLoad /\ [][NextLoad]_vars

----------------------------------------------------------------------------
(* Harness for the registry: registry.json of an installation that may still   *)
(* hold the file's entry under its absolute path, as earlier versions wrote it *)

\* Entries of a registry: a baseline hash, with or without a hunk snapshot
RegistryEntries ==
  LET plain == {[hash |-> <<c>>] : c \in Letters}
  IN plain \cup {Spread(e, [diffFormat |-> "hunks-v1", diffHunks |-> <<>>,
                            diffBaseHash |-> <<"a">>, diffResultHash |-> <<"b">>]) :
                   e \in plain}

\* Registries holding the file under its relative key, its absolute key, both or neither
OneFileRegistries ==
  {EmptyRegistry}
  \cup {[k \in {key} |-> e] : key \in {"rel", "abs"}, e \in RegistryEntries}
  \cup {[k \in {"rel", "abs"} |-> IF k = "rel" THEN e ELSE f] :
          e \in RegistryEntries, f \in RegistryEntries}

\* The same registries, with or without the entry of another generated file
Registries ==
  OneFileRegistries
  \cup {[k \in DOMAIN r \cup {"other"} |-> IF k = "other" THEN e ELSE r[k]] :
          r \in OneFileRegistries, e \in RegistryEntries}

InitRegistry ==
  /\ InitIdle
  /\ disk = NoFile
  /\ registry \in Registries
  /\ commits = <<>>
  /\ clock = 0
  /\ last = NoOp
  /\ batch = NoBatch

\* updateStoredHash(filePath, hash)
StoreHash(hash) ==
  /\ registry' = updateStoredHash(registry, hash)
  /\ last' = [NoOp EXCEPT !.op = "updateStoredHash", !.contents = hash]
  /\ UNCHANGED <<fnVars, disk, commits, clock, batch>>

\* updateStoredHunks(filePath, hunks, baseHash, resultHash)
StoreHunks(hunks, baseHash, resultHash) ==
  /\ registry' = updateStoredHunks(registry, hunks, baseHash, resultHash)
  /\ last' = [NoOp EXCEPT !.op = "updateStoredHunks"]
  /\ UNCHANGED <<fnVars, disk, commits, clock, batch>>

\* getStoredHash(filePath)
LookupHash ==
  /\ fnOut' = [st |-> "hash", text |-> getStoredHash(registry)]
  /\ last' = [NoOp EXCEPT !.op = "getStoredHash"]
  /\ UNCHANGED <<fnA, fnB, fnHunks, fnPc, disk, registry, commits, clock, batch>>

NextRegistry ==
  \/ \E c \in Letters : StoreHash(<<c>>)
  \/ \E c \in Letters, d \in Letters :
       StoreHunks(computeHunks(<<c>>, <<d>>), <<c>>, <<d>>)
  \/ LookupHash

SpecRegistry == InitRegistry /\ [][NextRegistry]_vars

----------------------------------------------------------------------------
(* Harness for the fuzzy applier: one hand-made hunk applied to the base text fnA *)

LetterLines == {<<c>> : c \in Letters}

\* The optional context of a hand-made hunk: absent, empty, or up to MaxCtx lines
CtxChoices == SeqsUpTo(LetterLines, 0, MaxCtx)

\* Hunks that conform to the DiffHunk type with len(oldContent) = oldLines >= 1
ReplaceHunks ==
  LET core == {[oldStart |-> 0, oldLines |-> Len(o), newStart |-> 0, newLines |-> Len(n),
                oldContent |-> o, newContent |-> n] :
                 o \in SeqsUpTo(LetterLines, 1, MaxBlock),
                 n \in SeqsUpTo(LetterLines, 0, MaxBlock)}
      withB == core \cup {[f \in DOMAIN h \cup {"ctxBeforeOld"} |->
                             IF f = "ctxBeforeOld" THEN c ELSE h[f]] :
                            h \in core, c \in CtxChoices}
  IN withB \cup {[f \in DOMAIN h \cup {"ctxAfterOld"} |->
                     IF f = "ctxAfterOld" THEN c ELSE h[f]] :
                    h \in withB, c \in CtxChoices}

\* Base texts of the fuzzy harness: LF-separated
BaseTexts == {Join(ls) : ls \in SeqsUpTo(LineVals, 1, MaxLines)}

InitFuzzy ==
  /\ fnA \in BaseTexts
  /\ fnB = <<>>
  /\ fnHunks \in {<<h>> : h \in ReplaceHunks}
  /\ fnOut = Failed
  /\ fnPc = "start"
  /\ InitSys

FuzzyApply ==
  /\ fnPc = "start"
  /\ fnOut' = applyHunksToAnyBase(fnA, fnHunks)
  /\ fnPc' = "done"
  /\ UNCHANGED <<fnA, fnB, fnHunks, sysVars>>

NextFuzzy == FuzzyApply

SpecFuzzy == InitFuzzy /\ [][NextFuzzy]_vars

----------------------------------------------------------------------------
(* Harness for the fuzzy applier on hunk sequences: one or two hand-made hunks, *)
(* replacements and insertions, applied to the base text fnA; fnB receives the  *)
(* cursor and the index of every hunk                                           *)

\* Hunks that conform to the DiffHunk type: a block of at most one line replaced
\* or, with oldLines = 0, one line inserted; newStart inside or beyond the base
SeqHunks ==
  {[oldStart |-> 0, oldLines |-> Len(o), newStart |-> s, newLines |-> 1,
    oldContent |-> o, newContent |-> <<n>>, ctxBeforeOld |-> cb, ctxAfterOld |-> ca] :
     o \in SeqsUpTo(LetterLines, 0, 1), s \in {0, MaxFileLines + 1}, n \in LetterLines,
     cb \in CtxChoices, ca \in CtxChoices}

\* Base texts of the harness: LF-separated lines of one letter
SeqBases == {Join(ls) : ls \in SeqsUpTo(LetterLines, 1, MaxFileLines)}

InitFuzzySeq ==
  /\ fnA \in SeqBases
  /\ fnB = <<>>
  /\ fnHunks \in SeqsUpTo(SeqHunks, 1, 2)
  /\ fnOut = Failed
  /\ fnPc = "start"
  /\ InitSys

FuzzySeqApply ==
  /\ fnPc = "start"
  /\ fnOut' = applyHunksToAnyBase(fnA, fnHunks)
  /\ fnB' = FuzzySteps(Split(fnA), fnHunks, 1, 0)
  /\ fnPc' = "done"
  /\ UNCHANGED <<fnA, fnHunks, sysVars>>

NextFuzzySeq == FuzzySeqApply

SpecFuzzySeq == InitFuzzySeq /\ [][NextFuzzySeq]_vars

----------------------------------------------------------------------------
(* Harness for the exact applier: up to two hand-made hunks, in range or not,  *)
(* applied to the base text fnA with applyHunksToBase                          *)

\* Hunks whose position may lie outside the base and whose oldContent, oldLines
\* lines "b", need not be what the base holds there
ExactHunks ==
  {[oldStart |-> s, oldLines |-> n, newStart |-> s, newLines |-> Len(c),
    oldContent |-> [k \in 1..n |-> <<"b">>], newContent |-> c] :
     s \in (-1)..MaxLines, n \in 0..MaxBlock, c \in SeqsUpTo({<<"b">>}, 0, MaxBlock)}

\* Base texts of the exact harness: LF-separated lines of one letter
ExactBases == {Join(ls) : ls \in SeqsUpTo(LetterLines, 1, MaxLines)}

InitExact ==
  /\ fnA \in ExactBases
  /\ fnB = <<>>
  /\ fnHunks \in SeqsUpTo(ExactHunks, 0, 2)
  /\ fnOut = Failed
  /\ fnPc = "start"
  /\ InitSys

ExactApply ==
  /\ fnPc = "start"
  /\ fnOut' = applyHunksToBase(fnA, fnHunks)
  /\ fnPc' = "done"
  /\ UNCHANGED <<fnA, fnB, fnHunks, sysVars>>

NextExact == ExactApply

SpecExact == InitExact /\ [][NextExact]_vars

----------------------------------------------------------------------------
(* Properties of the diff engine and the appliers *)

\* The subsequences of s, one per set of kept positions
Subseqs(s) ==
  LET Pick(K) ==
        LET RECURSIVE Build(_)
            Build(i) == IF i > Len(s) THEN <<>>
                        ELSE (IF i \in K THEN <<s[i]>> ELSE <<>>) \o Build(i + 1)
        IN Build(1)
  IN {Pick(K) : K \in SUBSET (1..Len(s))}

\* Length of a longest common subsequence, by enumeration
LCS(a, b) ==
  LET common == Subseqs(a) \cap Subseqs(b)
  IN CHOOSE n \in 0..Len(a) : (\E c \in common : Len(c) = n) /\ (\A c \in common : Len(c) <= n)

RECURSIVE HunkLineCount(_)
HunkLineCount(hunks) ==
  IF hunks = <<>> THEN 0
  ELSE Len(hunks[1].oldContent) + Len(hunks[1].newContent) + HunkLineCount(Tail(hunks))

\* C1: applying the hunks of computeHunks(A, B) to A with applyHunksToBase
\* succeeds and yields exactly the text B.
C1_RoundTripExact ==
  fnPc = "done" => fnOut.st = "text" /\ fnOut.text = fnB

\* The same round trip on line sequences: the result has exactly the lines of B.
RoundTripLines ==
  fnPc = "done" => fnOut.st = "text" /\ Split(fnOut.text) = Split(fnB)

\* C5: the hunks of computeHunks are pairwise disjoint in the old text and
\* ascending by oldStart: each hunk ends at or before the start of the next.
C5_HunksDisjointAscending ==
  fnPc # "start" =>
    \A k \in 1..(Len(fnHunks) - 1) :
      fnHunks[k].oldStart + fnHunks[k].oldLines <= fnHunks[k + 1].oldStart

C5_Witness ==
  fnPc = "hunks" /\ Len(fnHunks) >= 2 /\ fnHunks[1].oldLines > 0

\* C6: the hunks are a minimal edit script: their old and new lines number
\* n + m - 2 * LCS(a, b), and identical texts give no hunk at all.
C6_MinimalEditScript ==
  fnPc # "start" =>
    LET a == Split(fnA)
        b == Split(fnB)
    IN /\ HunkLineCount(fnHunks) = Len(a) + Len(b) - 2 * LCS(a, b)
       /\ (fnA = fnB => fnHunks = <<>>)

C6_Witness ==
  /\ fnPc = "hunks"
  /\ Len(fnHunks) >= 2
  /\ LCS(Split(fnA), Split(fnB)) >= 1
  /\ HunkLineCount(fnHunks) = 3

C6_WitnessIdentical ==
  fnPc = "hunks" /\ fnA = fnB /\ Len(Split(fnA)) = MaxLines

\* The 0-based positions at which block occurs verbatim in lines
Occurrences(lines, block) ==
  {p \in 0..(Len(lines) - Len(block)) :
     \A q \in 1..Len(block) : lines[p + q] = block[q]}

\* C4: when the base contains the hunk's oldContent block exactly once,
\* applyHunksToAnyBase succeeds and returns the base with that block replaced
\* by newContent in place, every other line unchanged.
C4_FuzzyRelocation ==
  fnPc = "done" =>
    LET lines == Split(fnA)
        h == fnHunks[1]
        occ == Occurrences(lines, h.oldContent)
    IN Cardinality(occ) = 1 =>
         LET p == CHOOSE x \in occ : TRUE
         IN /\ fnOut.st = "text"
            /\ fnOut.text = Join(SubSeq(lines, 1, p) \o h.newContent
                                 \o SubSeq(lines, p + Len(h.oldContent) + 1, Len(lines)))

C4_Witness ==
  /\ fnPc = "done"
  /\ Len(fnHunks[1].oldContent) = 2
  /\ Occurrences(Split(fnA), fnHunks[1].oldContent) = {1}
  /\ fnOut.st = "text"
  /\ fnOut.text # fnA

----------------------------------------------------------------------------
(* Properties of the reconciliation writer.  A step with last'.op = "write" is *)
(* one writeGeneratedFile call with the arguments recorded in last'.           *)

\* The registry holds a cached hunk snapshot for the file
HasSnapshot(reg) == "rel" \in DOMAIN reg /\ "diffHunks" \in DOMAIN reg["rel"]

\* The registry comparison: entry absent, or its hash differs from the on-disk hash
Drifted(d, reg) == getStoredHash(reg) = NoHash \/ getStoredHash(reg) # computeContentHash(d)

\* lines with the block of k lines at 0-based position p replaced by y
ReplaceBlock(lines, p, k, y) ==
  SubSeq(lines, 1, p) \o y \o SubSeq(lines, p + k + 1, Len(lines))

\* The block replacements <<p, k, y>> that turn the lines a into the lines e
BlockEdits(a, e) ==
  LET cuts == {c \in (0..Len(a)) \X (1..Len(a)) :
                 c[1] + c[2] <= Len(a) /\ Len(e) >= Len(a) - c[2]}
      Repl(c) == SubSeq(e, c[1] + 1, Len(e) - (Len(a) - c[1] - c[2]))
  IN {t \in {<<c[1], c[2], Repl(c)>> : c \in cuts} :
        /\ ReplaceBlock(a, t[1], t[2], t[3]) = e
        /\ t[3] # SubSeq(a, t[1] + 1, t[1] + t[2])}

\* The block edit t of the lines a names exactly the lines that changed: the block
\* and its replacement have no first line and no last line in common
TightBlock(a, t) ==
  LET x == SubSeq(a, t[1] + 1, t[1] + t[2])
      y == t[3]
  IN y = <<>> \/ (x[1] # y[1] /\ x[Len(x)] # y[Len(y)])

\* C2: with force unset, a write that finds the file drifted and holding an edit
\* made after the last commit (its hash is not the snapshot's diffResultHash)
\* never replaces the content with a merge result without a prompt.
C2_PostCommitEditNeverMergedAway ==
  [][(/\ last'.op = "write"
      /\ ~last'.force
      /\ disk # NoFile
      /\ Drifted(disk, registry)
      /\ HasSnapshot(registry)
      /\ computeContentHash(disk) # registry["rel"].diffResultHash)
     => ~(/\ last'.branch \in {"merged-registry", "merged-commits"}
          /\ ~last'.prompted
          /\ disk' # disk)]_vars

\* What C3 promises of a write step whose candidate is g2, for the block edit t
\* of the baseline lines a
RebasePost(a, t, g2) ==
  LET x == SubSeq(a, t[1] + 1, t[1] + t[2])
      occ == Occurrences(Split(g2), x)
  IN Cardinality(occ) = 1 =>
       LET q == CHOOSE o \in occ : TRUE
       IN /\ disk' = Join(ReplaceBlock(Split(g2), q, t[2], t[3]))
          /\ HashAt(registry', "rel") = computeContentHash(g2)
          /\ last'.result = "written"
          /\ ~last'.prompted

\* The file holds a committed block edit of the baseline: the registry baseline
\* is g1, the snapshot was taken of the on-disk content against g1
CommittedEditOf(g1) ==
  /\ disk # NoFile
  /\ HashAt(registry, "rel") = computeContentHash(g1)
  /\ HasSnapshot(registry)
  /\ registry["rel"].diffBaseHash = computeContentHash(g1)
  /\ registry["rel"].diffResultHash = computeContentHash(disk)

\* C3 as claimed: after a committed block replacement on baseline G1, a write of
\* a candidate G2 (other than G1 and other than the edited file) that contains
\* the block's original lines exactly once puts G2 with the replacement applied
\* on disk, registers hash(G2), returns Written and does not prompt.
C3_RebaseAnyBlock ==
  [][(/\ last'.op = "write"
      /\ ~last'.force
      /\ HasSnapshot(registry)
      /\ CommittedEditOf(registry["rel"].diffBaseHash)
      /\ last'.contents # registry["rel"].diffBaseHash
      /\ last'.contents # disk)
     => LET a == Split(registry["rel"].diffBaseHash)
        IN \A t \in BlockEdits(a, Split(disk)) :
             TightBlock(a, t) => RebasePost(a, t, last'.contents)]_vars

\* C3 as amended: the same, when the commit recorded the edit as one hunk that
\* replaces exactly that block; the file written is the lines of G2 with the
\* replacement applied, joined by LF.
C3_RebaseOneHunkBlock ==
  [][(/\ last'.op = "write"
      /\ ~last'.force
      /\ HasSnapshot(registry)
      /\ CommittedEditOf(registry["rel"].diffBaseHash)
      /\ last'.contents # registry["rel"].diffBaseHash
      /\ last'.contents # disk)
     => LET a == Split(registry["rel"].diffBaseHash)
            hs == registry["rel"].diffHunks
        IN \A t \in BlockEdits(a, Split(disk)) :
             (/\ Len(hs) = 1
              /\ hs[1].oldContent = SubSeq(a, t[1] + 1, t[1] + t[2])
              /\ hs[1].newContent = t[3])
             => RebasePost(a, t, last'.contents)]_vars

\* A write has merged a one-hunk snapshot into a candidate other than the
\* snapshot's base, at a position other than the hunk's oldStart
C3_Witness ==
  /\ last.op = "write"
  /\ last.branch = "merged-registry"
  /\ ~last.force
  /\ HasSnapshot(registry)
  /\ registry["rel"].diffBaseHash # last.contents
  /\ HashAt(registry, "rel") = computeContentHash(last.contents)
  /\ Len(registry["rel"].diffHunks) = 1
  /\ LET h == registry["rel"].diffHunks[1]
     IN /\ h.oldLines > 0
        /\ h.newLines > 0
        /\ \E q \in 1..Len(Split(last.contents)) :
             /\ q # h.oldStart
             /\ disk = Join(ReplaceBlock(Split(last.contents), q, h.oldLines, h.newContent))

\* C7: a write to a path that does not exist creates the file with exactly the
\* contents, registers hash(contents) under the path, returns Written and does
\* not prompt, whatever force and skipOnConflict are.
C7_CreateWhenMissing ==
  [][(last'.op = "write" /\ disk = NoFile)
     => /\ disk' = last'.contents
        /\ HashAt(registry', "rel") = computeContentHash(last'.contents)
        /\ last'.result = "written"
        /\ ~last'.prompted]_vars

C7_Witness ==
  /\ last.op = "write"
  /\ last.branch = "created"
  /\ last.skipOnConflict
  /\ ~last.force
  /\ commits # <<>>
  /\ disk = last.contents
  /\ HasSnapshot(registry)

\* C8: a write whose contents equal the on-disk content returns Unchanged, writes
\* no file, and leaves the registry, an absent entry included, as it was.
C8_UnchangedIsNoOp ==
  [][(last'.op = "write" /\ disk # NoFile /\ disk = last'.contents)
     => /\ last'.result = "unchanged"
        /\ last'.fsWrites = {}
        /\ disk' = disk
        /\ registry' = registry]_vars

C8_Witness ==
  /\ last.op = "write"
  /\ last.result = "unchanged"
  /\ last.force
  /\ disk = last.contents
  /\ registry = EmptyRegistry

\* The entries of the commit log for the file with status modified, each with the
\* createdAt of its commit
LogEntries ==
  {e \in UNION {{[createdAt |-> commits[i].createdAt, record |-> commits[i].files[k]] :
                   k \in 1..Len(commits[i].files)} : i \in 1..Len(commits)} :
     e.record.file = "rel" /\ e.record.status = "modified"}

\* C9: for a drifted file, force unset and no usable snapshot, write applies
\* exactly an entry whose baseHash is the candidate's hash; when no entry matches
\* it applies the most recent entry with the fuzzy strategy; success gives a
\* merged Written.
C9_CommitLogFallback ==
  [][(/\ last'.op = "write"
      /\ ~last'.force
      /\ disk # NoFile
      /\ disk # last'.contents
      /\ Drifted(disk, registry)
      /\ SnapshotApply(registry, last'.contents).st = "null"
      /\ LogEntries # {})
     => LET c == last'.contents
            matching == {e \in LogEntries : e.record.baseHash = computeContentHash(c)}
            recent == CHOOSE e \in LogEntries : \A f \in LogEntries : f.createdAt <= e.createdAt
            fuzzy == applyHunksToAnyBase(c, recent.record.hunks)
        IN IF matching # {}
           THEN /\ last'.result = "written"
                /\ ~last'.prompted
                /\ \E e \in matching : disk' = applyHunksToBase(c, e.record.hunks).text
           ELSE fuzzy.st = "text"
                => /\ last'.result = "written"
                   /\ ~last'.prompted
                   /\ disk' = fuzzy.text]_vars

C11_ForceReappliesCommitted ==
  [][(/\ last'.op = "write"
      /\ last'.force
      /\ HasSnapshot(registry)
      /\ CommittedEditOf(registry["rel"].diffBaseHash)
      /\ registry["rel"].diffHunks # <<>>
      /\ last'.contents # registry["rel"].diffBaseHash
      /\ last'.contents # disk
      /\ applyHunksToAnyBase(last'.contents, registry["rel"].diffHunks).st = "text")
     => disk' = applyHunksToAnyBase(last'.contents, registry["rel"].diffHunks).text]_vars

\* C12: with skipOnConflict set and force unset, a write that finds the file
\* user-modified leaves the on-disk content as it was.
C12_SkipNeverOverwrites ==
  [][(/\ last'.op = "write"
      /\ last'.skipOnConflict
      /\ ~last'.force
      /\ disk # NoFile
      /\ Drifted(disk, registry))
     => disk' = disk]_vars

\* C13: a write that returns Skipped, by skipOnConflict or by a declined prompt,
\* leaves the file and the whole registry as they were, writes nothing and
\* raises no error.
C13_SkippedChangesNothing ==
  [][(last'.op = "write" /\ last'.result = "skipped")
     => /\ last'.branch \in {"skipped", "declined"}
        /\ disk' = disk
        /\ registry' = registry
        /\ last'.fsWrites = {}]_vars

\* Both ways to Skipped have been taken on a file that held a committed edit
C13_Witness ==
  /\ last.op = "write"
  /\ last.branch = "declined"
  /\ last.prompted
  /\ HasSnapshot(registry)
  /\ disk # last.contents

\* C15: after a write that returns Written, the registered hash is the hash of
\* the on-disk content, on the created, clean, forced, confirmed and merged paths.
C15_RegisteredHashIsWrittenContent ==
  [][(last'.op = "write" /\ last'.result = "written")
     => HashAt(registry', "rel") = computeContentHash(disk')]_vars

\* The write calls that have started and not returned: each waits for an answer
\* to its overwrite prompt
InFlight == {file \in BatchFiles : batch.files[file].call = "prompting"}

\* C14: during a generate run no two write calls are in flight at once, so at
\* most one overwrite prompt is pending at any moment.
C14_OneWriteInFlight ==
  batch.pc \in {"domain", "validation"} => Cardinality(InFlight) <= 1

\* The <<file index, entry index>> pairs of the entries of the readable commit files
ReadableEntries ==
  {ik \in (1..Len(commits)) \X (1..MaxRecords) :
     Parses(commits[ik[1]]) /\ ik[2] <= Len(commits[ik[1]].files)}

\* The tuple loadAllCommitRecords owes for the entry ik
OwedTuple(ik) ==
  [createdAt |-> IF "createdAt" \in DOMAIN commits[ik[1]] THEN commits[ik[1]].createdAt ELSE 0,
   file |-> commits[ik[1]].files[ik[2]].file,
   record |-> commits[ik[1]].files[ik[2]]]

\* fnOut holds every owed tuple as often as it is owed, and nothing else
ReturnsOwedTuples ==
  /\ Len(fnOut) = Cardinality(ReadableEntries)
  /\ \A ik \in ReadableEntries :
       Cardinality({k \in 1..Len(fnOut) : fnOut[k] = OwedTuple(ik)})
         = Cardinality({jl \in ReadableEntries : OwedTuple(jl) = OwedTuple(ik)})

\* C16: loadAllCommitRecords returns the entries of every readable commit file
\* as (createdAt, file, entry) tuples in non-decreasing createdAt order whatever
\* the listing order; of two commits of one file the later one comes last.
C16_LoadAllSortedByCreatedAt ==
  (fnPc = "done" /\ commits # <<>>) =>
    /\ ReturnsOwedTuples
    /\ \A k \in 1..(Len(fnOut) - 1) : fnOut[k].createdAt <= fnOut[k + 1].createdAt
    /\ \A k, l \in 1..Len(fnOut) :
         (fnOut[k].file = fnOut[l].file /\ fnOut[k].createdAt < fnOut[l].createdAt) => k < l

\* A listing with the later commit of the file first has been read
C16_Witness ==
  /\ fnPc = "done"
  /\ Len(commits) >= 2
  /\ Parses(commits[1]) /\ Parses(commits[2])
  /\ Timestamp(commits[1]) > Timestamp(commits[2])
  /\ Timestamp(commits[2]) > 0
  /\ Len(fnOut) = 2
  /\ fnOut[1].file = "rel" /\ fnOut[2].file = "rel"
  /\ fnOut[1].record # fnOut[2].record

\* C17: a commit file that fails to parse contributes no entry and raises no
\* error; the entries of all other commit files are returned as if it were not
\* there.
C17_BrokenCommitSkipped ==
  (fnPc = "done" /\ commits # <<>>) =>
    /\ Len(fnOut) = Cardinality(ReadableEntries)
    /\ fnOut = loadAllCommitRecords(SelectSeq(commits, Parses))

\* A listing with an unparsable commit file before a readable one has been read
C17_Witness ==
  /\ fnPc = "done"
  /\ Len(commits) = MaxListing
  /\ ~Parses(commits[1])
  /\ Parses(commits[2])
  /\ Len(fnOut) >= 1

\* C18: after updateStoredHash or updateStoredHunks the file's entry is under the
\* relative key and no absolute key remains; an entry that was under the absolute
\* key has been migrated, so the file's baseline hash is still found unless the
\* write set a new one; a lookup finds the hash of a file that has only an
\* absolute key.
C18_RelativeKeyMigration ==
  [][/\ (last'.op \in {"updateStoredHash", "updateStoredHunks"}
           => /\ "rel" \in DOMAIN registry'
              /\ "abs" \notin DOMAIN registry')
     /\ (last'.op = "updateStoredHash" => getStoredHash(registry') = last'.contents)
     /\ (last'.op = "updateStoredHunks" => getStoredHash(registry') = getStoredHash(registry))
     /\ (last'.op = "getStoredHash" /\ DOMAIN registry = {"abs"}
           => fnOut'.text = registry["abs"].hash)]_vars

\* The registry comparison of the writer for the file as it is now
UserModified == isUserModified(getStoredHash(registry), computeContentHash(disk))

\* C19: diff reports an existing file as modified, and commit records it as
\* modified, exactly when the registry comparison of the writer says it is
\* user-modified.
C19_ModifiedOnlyByRegistryComparison ==
  [][/\ (last'.op = "diff" /\ disk # NoFile
           => (last'.result = "modified" <=> UserModified))
     /\ (last'.op = "commit" /\ disk # NoFile
           => (commits'[Len(commits')].files # <<>> <=> UserModified))]_vars

\* C20: the commit log is append-only: a commit adds exactly one commit record,
\* and no commit, write or diff step changes or removes a record that exists.
C20_CommitLogAppendOnly ==
  [][/\ (last'.op = "commit" => Len(commits') = Len(commits) + 1)
     /\ Len(commits') >= Len(commits)
     /\ \A i \in 1..Len(commits) : commits'[i] = commits[i]]_vars

\* The file is as the last commit recorded it, and the commit was taken against
\* the generated code g
CommittedAgainst(g) ==
  /\ disk # NoFile
  /\ HasSnapshot(registry)
  /\ registry["rel"].diffBaseHash = computeContentHash(g)
  /\ registry["rel"].diffResultHash = computeContentHash(disk)

\* C21: after a commit recorded the user-modified file, a write with force unset
\* whose candidate is the generated code of commit time leaves the on-disk
\* content exactly as committed and does not prompt.
C21_CommittedSurvivesRegeneration ==
  [][(/\ last'.op = "write"
      /\ ~last'.force
      /\ CommittedAgainst(last'.contents))
     => /\ disk' = disk
        /\ ~last'.prompted]_vars

\* The same with the content compared line by line
C21_CommittedLinesSurvive ==
  [][(/\ last'.op = "write"
      /\ ~last'.force
      /\ CommittedAgainst(last'.contents))
     => /\ Split(disk') = Split(disk)
        /\ ~last'.prompted]_vars

\* What C22 says applyHunksToBase returns: the hunks taken in order, each placed
\* at oldStart plus the running offset
RECURSIVE ExactAsSpecified(_, _, _)
ExactAsSpecified(lines, hunks, offset) ==
  IF hunks = <<>> THEN Applied(Join(lines))
  ELSE LET h == Head(hunks)
           start == h.oldStart + offset
       IN IF start \notin 0..Len(lines) \/ start + h.oldLines \notin 0..Len(lines)
          THEN Failed
          ELSE ExactAsSpecified(SubSeq(lines, 1, start) \o h.newContent
                                  \o SubSeq(lines, start + h.oldLines + 1, Len(lines)),
                                Tail(hunks), offset + Len(h.newContent) - h.oldLines)

\* C22: applyHunksToBase returns null exactly when, for some hunk taken in order,
\* oldStart + offset or that plus oldLines lies outside 0..line count; otherwise
\* it returns the text with each hunk's range replaced by its newContent and the
\* offset advanced by len(newContent) - oldLines, the base lines not being
\* compared with oldContent.
C22_ExactApplyByPosition ==
  fnPc = "done" => fnOut = ExactAsSpecified(Split(fnA), fnHunks, 0)

\* Two hunks were applied: the first changed the line count, the second replaced
\* lines that are not its oldContent at a position shifted by the offset
C22_Witness ==
  /\ fnPc = "done"
  /\ fnOut.st = "text"
  /\ Len(fnHunks) = 2
  /\ Len(fnHunks[1].newContent) > fnHunks[1].oldLines
  /\ fnHunks[2].oldLines > 0
  /\ fnHunks[2].oldStart >= fnHunks[1].oldStart + fnHunks[1].oldLines
  /\ Slice(Split(fnA), fnHunks[2].oldStart, fnHunks[2].oldStart + fnHunks[2].oldLines)
       # fnHunks[2].oldContent
  /\ fnOut.text # fnA

\* The second hunk fell outside the text the first hunk left
C22_WitnessNull ==
  /\ fnPc = "done"
  /\ fnOut.st = "null"
  /\ Len(fnHunks) = 2
  /\ fnHunks[1].oldLines > Len(fnHunks[1].newContent)
  /\ fnHunks[2].oldStart + fnHunks[2].oldLines <= Len(Split(fnA))
  /\ fnHunks[1].oldStart \in 0..(Len(Split(fnA)) - fnHunks[1].oldLines)

\* C23: in applyHunksToAnyBase the search cursor is forward-only: every hunk is
\* located or inserted at an index at or after the cursor the previous hunk
\* left, and the cursor never decreases.
C23_CursorForwardOnly ==
  fnPc = "done" =>
    /\ \A k \in 1..Len(fnB) : fnB[k].at >= 0 => fnB[k].at >= fnB[k].from
    /\ \A k \in 1..(Len(fnB) - 1) : fnB[k].from <= fnB[k + 1].from

\* The first position of the non-empty block in lines, -1 when there is none
FirstOccurrence(lines, block) ==
  IF block = <<>> \/ Occurrences(lines, block) = {} THEN -1
  ELSE CHOOSE p \in Occurrences(lines, block) : \A q \in Occurrences(lines, block) : p <= q

\* The insertion point C24 describes for the insertion-only hunk h on the lines
InsertionPointAsSpecified(lines, h) ==
  LET b == FirstOccurrence(lines, h.ctxBeforeOld)
      a == FirstOccurrence(lines, h.ctxAfterOld)
  IN IF b # -1 THEN b + Len(h.ctxBeforeOld)
     ELSE IF a # -1 THEN a
     ELSE Min(h.newStart, Len(lines))

\* C24: an insertion-only hunk is inserted right after ctxBeforeOld when that is
\* found, failing that right before ctxAfterOld when that is found, and only
\* when neither is found at newStart clamped to the length of the text.
C24_InsertionAnchorOrder ==
  (fnPc = "done" /\ fnHunks[1].oldLines = 0) =>
    fnB[1].at = InsertionPointAsSpecified(Split(fnA), fnHunks[1])

\* C25: for every base and every hunk that conforms to the DiffHunk type, the
\* context fields being optional, applyHunksToAnyBase returns a text or null and
\* does not throw.
C25_FuzzyNeverThrows ==
  fnPc = "done" => fnOut.st \in {"text", "null"}

\* The 0-based indices of the old lines that hunk h replaces or removes
OldRegion(h) == h.oldStart..(h.oldStart + h.oldLines - 1)

\* The 0-based indices of the old lines that hunk h holds as context
ContextIndices(h) ==
  ((h.oldStart - Len(h.ctxBeforeOld))..(h.oldStart - 1))
    \cup ((h.oldStart + h.oldLines)..(h.oldStart + h.oldLines + Len(h.ctxAfterOld) - 1))

\* C26: every line computeHunks captures in a hunk's ctxBeforeOld or ctxAfterOld
\* is an unchanged line of the old text: it lies in no hunk's old region.
C26_ContextIsUnchangedLines ==
  fnPc # "start" =>
    \A k, l \in 1..Len(fnHunks) : ContextIndices(fnHunks[k]) \cap OldRegion(fnHunks[l]) = {}

\* The write calls of the run that have returned Written
ReturnedWritten ==
  {file \in BatchFiles : batch.files[file].call = "done" /\ batch.files[file].result = "written"}

\* C27: with several write calls in flight no registry update is lost: the
\* registry holds the candidate's hash for every path whose call has returned
\* Written, while other calls still wait and once all calls have finished.
C27_NoLostRegistryUpdate ==
  batch.pc # "idle" =>
    \A file \in ReturnedWritten :
      HashAt(batch.files[file].registry, "rel") = computeContentHash(BatchCandidate)

\* The run has finished; the call for the first entity's domain file prompted
\* and then overwrote the file; the second entity's domain file was missing and
\* was created and registered while that call was waiting
C27_Witness ==
  /\ batch.pc = "finished"
  /\ {<<"domain", 1>>, <<"domain", 2>>} \subseteq ReturnedWritten
  /\ batch.files[<<"domain", 2>>].seen[<<"domain", 2>>] = EmptyRegistry
  /\ HashAt(batch.files[<<"domain", 2>>].seen[<<"domain", 1>>], "rel")
       # computeContentHash(BatchCandidate)

\* C28: a write to an existing file whose on-disk hash is the registered
\* baseline hash and differs from the candidate's overwrites the file with
\* exactly the candidate, on the path that consults neither the snapshot nor the
\* commit log, without a prompt, registers hash(candidate) and returns Written,
\* whatever force and skipOnConflict are.
C28_CleanFileOverwritten ==
  [][(/\ last'.op = "write"
      /\ disk # NoFile
      /\ getStoredHash(registry) = computeContentHash(disk)
      /\ computeContentHash(disk) # computeContentHash(last'.contents))
     => /\ disk' = last'.contents
        /\ last'.branch = "clean"
        /\ ~last'.prompted
        /\ HashAt(registry', "rel") = computeContentHash(last'.contents)
        /\ last'.result = "written"]_vars

\* A file without drift was overwritten with skipOnConflict set and force unset
\* although the registry held a snapshot and the commit log a commit
C28_Witness ==
  /\ last.op = "write"
  /\ last.branch = "clean"
  /\ last.skipOnConflict
  /\ ~last.force
  /\ HasSnapshot(registry)
  /\ commits # <<>>
  /\ disk = last.contents
  /\ HashAt(registry, "rel") = computeContentHash(disk)

\* The cached hunk snapshot of the file: the diff fields of its entry
SnapshotFields(reg) ==
  IF "rel" \in DOMAIN reg
  THEN [k \in DOMAIN reg["rel"] \ {"hash"} |-> reg["rel"][k]]
  ELSE EmptyEntry

\* The entry of the other generated file, <<>> when it has none
OtherEntry(reg) == IF "other" \in DOMAIN reg THEN <<reg["other"]>> ELSE <<>>

\* C29: updateStoredHash, the registry update of a write call, changes neither
\* the file's cached hunk snapshot nor the entry of another path; updateStoredHunks,
\* the registry update of commit, changes neither the file's stored hash nor the
\* entry of another path.
C29_RegistryUpdateFrames ==
  [][/\ (last'.op = "updateStoredHash"
           => /\ SnapshotFields(registry') = SnapshotFields(registry)
              /\ OtherEntry(registry') = OtherEntry(registry))
     /\ (last'.op = "updateStoredHunks"
           => /\ getStoredHash(registry') = getStoredHash(registry)
              /\ OtherEntry(registry') = OtherEntry(registry))]_vars

\* The part of C29 about updateStoredHash alone
C29_WriteFrame ==
  [][last'.op = "updateStoredHash"
       => /\ SnapshotFields(registry') = SnapshotFields(registry)
          /\ OtherEntry(registry') = OtherEntry(registry)]_vars

\* C30: when a write returned Written through the snapshot or commit merge
\* path, the same write repeated at once (same candidate, same options, nothing
\* in between) leaves the on-disk content as the first call wrote it.
C30_MergeIsIdempotent ==
  [][(/\ last.op = "write"
      /\ last.result = "written"
      /\ last.branch \in {"merged-registry", "merged-commits"}
      /\ last'.op = "write"
      /\ last'.contents = last.contents
      /\ last'.force = last.force
      /\ last'.skipOnConflict = last.skipOnConflict)
     => disk' = disk]_vars

\* The repeated generate merged the committed edit into a changed candidate a
\* second time and the file holds the merge result, not the candidate
C30_Witness ==
  /\ fnPc = "repeated"
  /\ last.op = "write"
  /\ last.branch = "merged-registry"
  /\ last.contents # fnA
  /\ disk # last.contents
  /\ HashAt(registry, "rel") = computeContentHash(last.contents)

=============================================================================
